---- MODULE Spec2Model ----
(***************************************************************************)
(* The plugin channel of the external cache manager                        *)
(* (cvmfs/cache_plugin/channel.cc): the request dispatcher                 *)
(* CachePlugin::HandleRequest with its per-message handlers, the           *)
(* transaction registry txn_ids_, the identifier counters, and the I/O     *)
(* supervisor CachePlugin::MainProcessRequests with its watch list         *)
(* watch_fds and the connection set connections_.                          *)
(*                                                                         *)
(* The cache backend (StartTxn, WriteTxn, Pread, ...) is a set of virtual  *)
(* functions of the plugin: every status it returns is a nondeterministic  *)
(* input of the handler that calls it.                                     *)
(*                                                                         *)
(* The pluggable construction of backends (PolymorphicConstruction) is     *)
(* modelled with the three plugins of its unit test                        *)
(* (test/unittests/t_polymorphic_construction.cc).                         *)
(***************************************************************************)
EXTENDS Integers, Sequences, FiniteSets, TLC

(***************************************************************************)
(* Bounds of the exploration.                                              *)
(***************************************************************************)
\* max_object_size_, scaled down: attachment and read sizes range 0..MaxObjectSize+1
MaxObjectSize == 2
\* request ids the clients use: 1..MaxReqId
MaxReqId == 2
\* session ids the clients put in store requests: 0..MaxSession-1
MaxSession == 1
\* part numbers the clients send: 1..MaxPart
MaxPart == 3
\* transaction ids handed out in one run: 0..MaxTxn-1
MaxTxn == 2
\* connections open at the same time where the requests are what is looked at
MaxConnStore == 1
\* connections open at the same time where the supervisor is what is looked at
MaxConn == 3
\* transaction ids handed out in one run where every kind of frame is sent
MaxTxnAll == 1
\* control signals waiting in the pipe
MaxPipe == 1
\* calls of AskToDetach in one run
MaxDetach == 2
\* listing ids handed out in one run: 1..MaxLst
MaxLst == 1
\* objects the backend lists
NumItems == 3
\* kListingSize, scaled down: the size budget of one listing reply
kListingSize == 2
\* session ids handed out in one run: 0..MaxHandshake-1
MaxHandshake == 1
\* ids handed out by each counter where the counters are what is looked at
MaxIds == 2
\* connections open at the same time in that workload
MaxConnIds == 2
\* Introspect calls in one run of the plugin test
MaxIntrospect == 2

\* Construct calls in one run of the plugin test (runs, scaled down)
MaxRuns == 4

\* descriptors: the read end of the control pipe, the listening socket, and
\* the lowest descriptor accept() can return
CtrlFd == 0
SocketFd == 1
FirstConFd == 2

NoTxn == -1
NoFd == -1

kSignalDetach == "D"
kSignalTerminate == "T"

STATUS_OK == "STATUS_OK"
STATUS_MALFORMED == "STATUS_MALFORMED"
STATUS_IO == "STATUS_IO"
STATUS_OUTOFBOUNDS == "STATUS_OUTOFBOUNDS"

\* what a call of the backend for a transaction may return
BackendStatus == {STATUS_OK, STATUS_IO}

\* what any other call of the backend may return
AnyStatus == {STATUS_OK, STATUS_IO, STATUS_OUTOFBOUNDS}

\* the optional operations a capability mask may advertise
Capabilities == {"refcount", "shrink", "info", "list", "object-info"}

\* the masks a plugin may be constructed with
CapabilityMasks == SUBSET Capabilities

ReqIds == 1..MaxReqId
SessionIds == 0..(MaxSession - 1)
UniqueRequests == SessionIds \X ReqIds

VARIABLES
  capabilities,     \* capabilities_: the capability mask given at construction
  pc,               \* position of the I/O thread in MainProcessRequests
  watch_fds,        \* vector<struct pollfd>: sequence of [fd, revents]
  i,                \* index of the request loop (0-based, as in the code)
  connections,      \* connections_
  open_fds,         \* connection descriptors open in the process
  pipe_ctrl,        \* bytes written to pipe_ctrl_ and not yet read
  asked,            \* calls of AskToDetach so far
  backlog,          \* clients waiting in the listen queue
  pending,          \* connections with an unread frame or a hang-up
  sigpipe,          \* disposition of SIGPIPE
  txn_ids,          \* txn_ids_: (session_id, req_id) -> transaction id
  next_txn_id,      \* next_txn_id_
  next_session_id,  \* next_session_id_
  next_lst_id,      \* next_lst_id_
  listings,         \* the backend's open listings: id -> objects yielded
  txns,             \* the backend's transactions, by id: [key, state]
  run,              \* per key: the in-order store in progress (observer)
  allocated,        \* the ids handed out so far, in order (observer)
  audit,            \* per transaction id: the backend calls made for it,
                    \* summed up (observer)
  pages,            \* per listing begun: its replies and calls (observer)
  plugins,          \* the plugin registry, the counters of the plugin
                    \* classes, and the last Construct call with its result
  last              \* the request handled in the step that led here: its
                    \* frame, backend calls and replies, and the registry
                    \* and the descriptor sets it started from (observer)

vars == <<capabilities, asked, pc, watch_fds, i, connections, open_fds, pipe_ctrl, backlog, pending,
          sigpipe, txn_ids, next_txn_id, next_session_id, next_lst_id,
          listings, txns, run, allocated, audit, pages, plugins,
          last>>

(***************************************************************************)
(* Frames.                                                                 *)
(***************************************************************************)
Msg(kind, session_id, req_id, hash_ok, size, part_nr, last_part) ==
  [kind |-> kind, session_id |-> session_id, req_id |-> req_id,
   hash_ok |-> hash_ok, size |-> size, part_nr |-> part_nr,
   last_part |-> last_part]

\* RecvFrame failed: nothing was decoded
RecvFail == Msg("RecvFail", 0, 0, TRUE, 0, 0, FALSE)
MsgQuit == Msg("cvmfs.MsgQuit", 0, 0, TRUE, 0, 0, FALSE)
MsgHandshake == Msg("cvmfs.MsgHandshake", 0, 0, TRUE, 0, 0, FALSE)
\* a frame whose message type the dispatcher does not know
MsgUnknown == Msg("cvmfs.MsgDetach", 0, 0, TRUE, 0, 0, FALSE)

MsgRefcountReqs ==
  { Msg("cvmfs.MsgRefcountReq", 0, r, h, 0, 0, FALSE) :
      r \in ReqIds, h \in BOOLEAN }

MsgObjectInfoReqs ==
  { Msg("cvmfs.MsgObjectInfoReq", 0, r, h, 0, 0, FALSE) :
      r \in ReqIds, h \in BOOLEAN }

\* size is the number of bytes to read
MsgReadReqs ==
  { Msg("cvmfs.MsgReadReq", 0, r, h, n, 0, FALSE) :
      r \in ReqIds, h \in BOOLEAN, n \in 0..(MaxObjectSize + 1) }

MsgInfoReqs == { Msg("cvmfs.MsgInfoReq", 0, r, TRUE, 0, 0, FALSE) : r \in ReqIds }

MsgShrinkReqs ==
  { Msg("cvmfs.MsgShrinkReq", 0, r, TRUE, 0, 0, FALSE) : r \in ReqIds }

\* size is the listing id of the request
MsgListReqs ==
  { Msg("cvmfs.MsgListReq", 0, r, TRUE, l, 0, FALSE) :
      r \in ReqIds, l \in 0..MaxLst }

\* size is the attachment size of the frame (att_size)
MsgStoreReqs ==
  { Msg("cvmfs.MsgStoreReq", k[1], k[2], h, a, p, l) :
      k \in UniqueRequests, h \in BOOLEAN, a \in 0..(MaxObjectSize + 1),
      p \in 1..MaxPart, l \in BOOLEAN }

MsgStoreAbortReqs ==
  { Msg("cvmfs.MsgStoreAbortReq", k[1], k[2], TRUE, 0, 0, FALSE) :
      k \in UniqueRequests }

\* a call of a backend operation: txn is the transaction id or the listing id
\* passed to it (NoTxn where the operation takes neither)
Call(op, txn, status) == [op |-> op, txn |-> txn, status |-> status]

\* a frame sent to the client: has_att and att are the attachment of the frame
Reply(type, req_id, status) ==
  [type |-> type, req_id |-> req_id, status |-> status, part_nr |-> 0,
   has_att |-> FALSE, att |-> 0]

StoreReply(req_id, part_nr, status) ==
  [Reply("cvmfs.MsgStoreReply", req_id, status) EXCEPT !.part_nr = part_nr]

\* what a handler leaves behind: the registry, the transaction counter, the
\* backend calls it made and the frames it sent, in order
Result(reg, ntxn, calls, replies) ==
  [reg |-> reg, ntxn |-> ntxn, calls |-> calls, replies |-> replies]

(***************************************************************************)
(* The transaction registry (SmallHashDynamic<UniqueRequest, uint64_t>).   *)
(***************************************************************************)
Contains(reg, key) == key \in DOMAIN reg

Lookup(reg, key) == IF key \in DOMAIN reg THEN reg[key] ELSE NoTxn

Insert(reg, key, txn_id) ==
  [k \in (DOMAIN reg) \cup {key} |-> IF k = key THEN txn_id ELSE reg[k]]

Erase(reg, key) == [k \in (DOMAIN reg) \ {key} |-> reg[k]]

Empty == [k \in {} |-> NoTxn]

UniqueRequest(msg) == <<msg.session_id, msg.req_id>>

(***************************************************************************)
(* The identifier counters: each call returns the value of its counter and *)
(* leaves the counter one higher.  The counters are 64 bits wide; the      *)
(* bounds of the exploration keep them far from the wrap.                  *)
(***************************************************************************)
NextSessionId(counter) == [id |-> counter, next |-> counter + 1]

NextTxnId(counter) == [id |-> counter, next |-> counter + 1]

NextLstId(counter) == [id |-> counter, next |-> counter + 1]

(***************************************************************************)
(* CachePlugin::HandleStoreAbort                                           *)
(***************************************************************************)
\* (mutation) the entry stays in the registry after AbortTxn
HandleStoreAbortKeepsEntry(msg, o, reg, ntxn) ==
  LET uniq_req == UniqueRequest(msg)
      txn_id == Lookup(reg, uniq_req)
  IN  IF ~Contains(reg, uniq_req)
      THEN Result(reg, ntxn, <<>>,
                  <<StoreReply(msg.req_id, 0, STATUS_MALFORMED)>>)
      ELSE Result(reg, ntxn,
                  <<Call("AbortTxn", txn_id, o.abort)>>,
                  <<StoreReply(msg.req_id, 0, o.abort)>>)

\* (mutation) the entry is erased only when AbortTxn succeeds
HandleStoreAbortKeepsOnError(msg, o, reg, ntxn) ==
  LET uniq_req == UniqueRequest(msg)
      txn_id == Lookup(reg, uniq_req)
  IN  IF ~Contains(reg, uniq_req)
      THEN Result(reg, ntxn, <<>>,
                  <<StoreReply(msg.req_id, 0, STATUS_MALFORMED)>>)
      ELSE Result(IF o.abort = STATUS_OK THEN Erase(reg, uniq_req) ELSE reg, ntxn,
                  <<Call("AbortTxn", txn_id, o.abort)>>,
                  <<StoreReply(msg.req_id, 0, o.abort)>>)

HandleStoreAbort(msg, o, reg, ntxn) ==
  LET uniq_req == UniqueRequest(msg)
      txn_id == Lookup(reg, uniq_req)
  IN  IF ~Contains(reg, uniq_req)
      THEN Result(reg, ntxn, <<>>,
                  <<StoreReply(msg.req_id, 0, STATUS_MALFORMED)>>)
      ELSE Result(Erase(reg, uniq_req), ntxn,
                  <<Call("AbortTxn", txn_id, o.abort)>>,
                  <<StoreReply(msg.req_id, 0, o.abort)>>)

(***************************************************************************)
(* CachePlugin::HandleStore                                                *)
(***************************************************************************)
\* (mutation) a part of exactly max_object_size that is not the last is refused
StoreMalformedOffByOne(msg) ==
  \/ ~msg.hash_ok
  \/ msg.size > MaxObjectSize
  \/ (msg.size <= MaxObjectSize /\ ~msg.last_part)

\* the gate on the hash and the attachment size
StoreMalformed(msg) ==
  \/ ~msg.hash_ok
  \/ msg.size > MaxObjectSize
  \/ (msg.size < MaxObjectSize /\ ~msg.last_part)

\* (mutation) the check for a running transaction is lost
IsRestartNever(msg, reg) == FALSE

\* part 1 of a key that has a running transaction
IsRestart(msg, reg) == msg.part_nr = 1 /\ Contains(reg, UniqueRequest(msg))

\* (mutation) the entry stays after the commit
AfterCommitKept(reg, uniq_req) == reg

\* the registry after CommitTxn
AfterCommit(reg, uniq_req) == Erase(reg, uniq_req)

\* (mutation) a failed write aborts the transaction and drops its entry
StoreFinishAutoAbort(msg, o, reg, ntxn, txn_id, calls, status) ==
  IF status # STATUS_OK
  THEN Result(Erase(reg, UniqueRequest(msg)), ntxn,
              Append(calls, Call("AbortTxn", txn_id, STATUS_OK)),
              <<StoreReply(msg.req_id, msg.part_nr, status)>>)
  ELSE IF msg.last_part
  THEN Result(AfterCommit(reg, UniqueRequest(msg)), ntxn,
              Append(calls, Call("CommitTxn", txn_id, o.commit)),
              <<StoreReply(msg.req_id, msg.part_nr, o.commit)>>)
  ELSE Result(reg, ntxn, calls,
              <<StoreReply(msg.req_id, msg.part_nr, status)>>)

\* the rest of the handler once WriteTxn has returned `status`: the early
\* return on a failed write, CommitTxn on the last part, the reply
StoreFinish(msg, o, reg, ntxn, txn_id, calls, status) ==
  IF status # STATUS_OK
  THEN Result(reg, ntxn, calls,
              <<StoreReply(msg.req_id, msg.part_nr, status)>>)
  ELSE IF msg.last_part
  THEN Result(AfterCommit(reg, UniqueRequest(msg)), ntxn,
              Append(calls, Call("CommitTxn", txn_id, o.commit)),
              <<StoreReply(msg.req_id, msg.part_nr, o.commit)>>)
  ELSE Result(reg, ntxn, calls,
              <<StoreReply(msg.req_id, msg.part_nr, status)>>)

\* (mutation) the attachment of the last part is not written
StoreWriteSkipsLast(msg, o, reg, ntxn, txn_id, calls) ==
  IF msg.size > 0 /\ ~msg.last_part
  THEN StoreFinish(msg, o, reg, ntxn, txn_id,
                   Append(calls, Call("WriteTxn", txn_id, o.write)), o.write)
  ELSE StoreFinish(msg, o, reg, ntxn, txn_id, calls, STATUS_OK)

\* WriteTxn, for a frame that has an attachment
StoreWrite(msg, o, reg, ntxn, txn_id, calls) ==
  IF msg.size > 0
  THEN StoreFinish(msg, o, reg, ntxn, txn_id,
                   Append(calls, Call("WriteTxn", txn_id, o.write)), o.write)
  ELSE StoreFinish(msg, o, reg, ntxn, txn_id, calls, STATUS_OK)

HandleStore(msg, o, reg, ntxn) ==
  LET uniq_req == UniqueRequest(msg)
      malformed == Result(reg, ntxn, <<>>,
                     <<StoreReply(msg.req_id, msg.part_nr, STATUS_MALFORMED)>>)
  IN  IF StoreMalformed(msg) THEN malformed
      ELSE IF msg.part_nr = 1
      THEN IF IsRestart(msg, reg) THEN malformed
           ELSE LET txn_id == NextTxnId(ntxn).id
                    ntxn2 == NextTxnId(ntxn).next
                    start == <<Call("StartTxn", txn_id, o.start)>>
                IN  IF o.start # STATUS_OK
                    THEN Result(reg, ntxn2, start,
                           <<StoreReply(msg.req_id, msg.part_nr, o.start)>>)
                    ELSE StoreWrite(msg, o, Insert(reg, uniq_req, txn_id),
                                    ntxn2, txn_id, start)
      ELSE IF ~Contains(reg, uniq_req) THEN malformed
           ELSE StoreWrite(msg, o, reg, ntxn, Lookup(reg, uniq_req), <<>>)

(***************************************************************************)
(* The handlers that keep no state in the channel.  Each yields the        *)
(* backend calls it made and the frames it sent.                           *)
(***************************************************************************)
Sent(calls, replies) == [calls |-> calls, replies |-> replies]

\* (mutation) a read of exactly max_object_size is refused
ReadMalformedOffByOne(msg) == ~msg.hash_ok \/ msg.size >= MaxObjectSize

\* the gate of HandleRead on the hash and the requested size
ReadMalformed(msg) == ~msg.hash_ok \/ msg.size > MaxObjectSize

\* o.nread: the number of bytes Pread stored in size, at most the size asked
HandleRead(msg, o) ==
  IF ReadMalformed(msg)
  THEN Sent(<<>>, <<Reply("cvmfs.MsgReadReply", msg.req_id, STATUS_MALFORMED)>>)
  ELSE Sent(<<Call("Pread", NoTxn, o.status)>>,
            <<[Reply("cvmfs.MsgReadReply", msg.req_id, o.status) EXCEPT
                 !.has_att = (o.status = STATUS_OK),
                 !.att = IF o.status = STATUS_OK THEN o.nread ELSE 0]>>)

\* (mutation) a failure of ChangeRefcount is answered with OK
HandleRefcountHidesFailure(msg, o) ==
  IF ~msg.hash_ok
  THEN Sent(<<>>,
            <<Reply("cvmfs.MsgRefcountReply", msg.req_id, STATUS_MALFORMED)>>)
  ELSE Sent(<<Call("ChangeRefcount", NoTxn, o.status)>>,
            <<Reply("cvmfs.MsgRefcountReply", msg.req_id, STATUS_OK)>>)

HandleRefcount(msg, o) ==
  IF ~msg.hash_ok
  THEN Sent(<<>>,
            <<Reply("cvmfs.MsgRefcountReply", msg.req_id, STATUS_MALFORMED)>>)
  ELSE Sent(<<Call("ChangeRefcount", NoTxn, o.status)>>,
            <<Reply("cvmfs.MsgRefcountReply", msg.req_id, o.status)>>)

\* (mutation) no frame is sent for an unparseable hash
HandleObjectInfoSilent(msg, o) ==
  IF ~msg.hash_ok
  THEN Sent(<<>>, <<>>)
  ELSE Sent(<<Call("GetObjectInfo", NoTxn, o.status)>>,
            <<Reply("cvmfs.MsgObjectInfoReply", msg.req_id, o.status)>>)

HandleObjectInfo(msg, o) ==
  IF ~msg.hash_ok
  THEN Sent(<<>>,
            <<Reply("cvmfs.MsgObjectInfoReply", msg.req_id, STATUS_MALFORMED)>>)
  ELSE Sent(<<Call("GetObjectInfo", NoTxn, o.status)>>,
            <<Reply("cvmfs.MsgObjectInfoReply", msg.req_id, o.status)>>)

\* (mutation) a request for an operation that the mask does not advertise is
\* turned down by the channel
HandleInfoChecksCapability(msg, o) ==
  IF "info" \notin capabilities
  THEN Sent(<<>>, <<Reply("cvmfs.MsgInfoReply", msg.req_id, STATUS_MALFORMED)>>)
  ELSE Sent(<<Call("GetInfo", NoTxn, o.status)>>,
            <<Reply("cvmfs.MsgInfoReply", msg.req_id, o.status)>>)

HandleInfo(msg, o) ==
  Sent(<<Call("GetInfo", NoTxn, o.status)>>,
       <<Reply("cvmfs.MsgInfoReply", msg.req_id, o.status)>>)

HandleShrink(msg, o) ==
  Sent(<<Call("Shrink", NoTxn, o.status)>>,
       <<Reply("cvmfs.MsgShrinkReply", msg.req_id, o.status)>>)

(***************************************************************************)
(* CachePlugin::HandleHandshake                                            *)
(***************************************************************************)
\* (mutation) the session counter is read without being advanced
HandleHandshakeSameSession(nsess) ==
  [nsess |-> nsess,
   calls |-> <<>>,
   replies |-> <<[type |-> "cvmfs.MsgHandshakeAck", status |-> STATUS_OK,
                  name |-> "name_", protocol_version |-> "kPbProtocolVersion",
                  max_object_size |-> MaxObjectSize,
                  session_id |-> nsess,
                  capabilities |-> capabilities]>>]

\* name_ and kPbProtocolVersion are fixed; capabilities_ is the mask given
\* at construction
HandleHandshake(nsess) ==
  [nsess |-> NextSessionId(nsess).next,
   calls |-> <<>>,
   replies |-> <<[type |-> "cvmfs.MsgHandshakeAck", status |-> STATUS_OK,
                  name |-> "name_", protocol_version |-> "kPbProtocolVersion",
                  max_object_size |-> MaxObjectSize,
                  session_id |-> NextSessionId(nsess).id,
                  capabilities |-> capabilities]>>]

(***************************************************************************)
(* CachePlugin::HandleList.  The backend lists the objects 1..NumItems;    *)
(* lst maps every listing that has begun and not ended to the number of    *)
(* objects it has yielded.                                                 *)
(***************************************************************************)
\* sizeof(item) + item.description.length() of the k-th object
ItemSize(k) == 1 + (k % 2)

\* ListingNext: o.fail_at is the call of this request (0 for the first) at
\* which the backend fails with o.status, if it gets that far
ListingNext(listing_id, lst, o, n) ==
  IF n = o.fail_at \/ listing_id \notin DOMAIN lst THEN o.status
  ELSE IF lst[listing_id] < NumItems THEN STATUS_OK
  ELSE STATUS_OUTOFBOUNDS

\* (mutation) the object that exceeds the size budget is left out of the reply
ListBreakDropsItem(status, lst, records, item, n) ==
  [status |-> status, lst |-> lst, records |-> records, n |-> n + 1]

\* the loop left by break: the record of the object that brought total_size
\* over the budget has been added before
ListBreak(status, lst, records, item, n) ==
  [status |-> status, lst |-> lst, records |-> Append(records, item),
   n |-> n + 1]

RECURSIVE ListLoop(_, _, _, _, _, _)
\* the while loop of HandleList: n calls made, records collected so far
ListLoop(listing_id, lst, o, n, total_size, records) ==
  LET status == ListingNext(listing_id, lst, o, n)
  IN  IF status # STATUS_OK
      THEN [status |-> status, lst |-> lst, records |-> records, n |-> n + 1]
      ELSE LET item == lst[listing_id] + 1
               lst2 == [lst EXCEPT ![listing_id] = item]
               total == total_size + ItemSize(item)
           IN  IF total > kListingSize
               THEN ListBreak(status, lst2, records, item, n)
               ELSE ListLoop(listing_id, lst2, o, n + 1, total,
                             Append(records, item))

\* (mutation) the listing is also ended when the size budget stops the loop
ListEndsOnBudget(status) == status \in {STATUS_OUTOFBOUNDS, STATUS_OK}

\* the branch after the loop that ends the listing
ListEnds(status) == status = STATUS_OUTOFBOUNDS

ListReply(req_id, status, listing_id, is_last_part, records) ==
  [type |-> "cvmfs.MsgListReply", req_id |-> req_id, status |-> status,
   listing_id |-> listing_id, is_last_part |-> is_last_part,
   records |-> records]

HandleList(msg, o, nlst, lst) ==
  LET begins == (msg.size = 0)
      listing_id == IF begins THEN NextLstId(nlst).id ELSE msg.size
      nlst2 == IF begins THEN NextLstId(nlst).next ELSE nlst
      begin == IF begins THEN <<Call("ListingBegin", listing_id, o.begin)>>
               ELSE <<>>
  IN  IF begins /\ o.begin # STATUS_OK
      THEN [nlst |-> nlst2, lst |-> lst, calls |-> begin,
            replies |-> <<ListReply(msg.req_id, o.begin, msg.size, TRUE, <<>>)>>]
      ELSE LET lst1 == IF begins
                       THEN [l \in (DOMAIN lst) \cup {listing_id} |->
                               IF l = listing_id THEN 0 ELSE lst[l]]
                       ELSE lst
               loop == ListLoop(listing_id, lst1, o, 0, 0, <<>>)
               nexts == [k \in 1..loop.n |->
                           Call("ListingNext", listing_id,
                                IF k < loop.n THEN STATUS_OK ELSE loop.status)]
               ends == ListEnds(loop.status)
           IN  [nlst |-> nlst2,
                lst |-> IF ends
                        THEN [l \in (DOMAIN loop.lst) \ {listing_id} |-> loop.lst[l]]
                        ELSE loop.lst,
                calls |-> begin \o nexts \o
                          (IF ends THEN <<Call("ListingEnd", listing_id, STATUS_OK)>>
                           ELSE <<>>),
                replies |-> <<ListReply(msg.req_id,
                                IF ends THEN STATUS_OK ELSE loop.status,
                                listing_id, ends, loop.records)>>]

(***************************************************************************)
(* CachePlugin::HandleRequest: s is the state of the channel,              *)
(* [reg, ntxn, nsess, nlst, lst]; proceed is the value returned.           *)
(***************************************************************************)
Handled(proceed, s, calls, replies) ==
  [proceed |-> proceed, s |-> s, calls |-> calls, replies |-> replies]

\* (mutation) the transactions are dropped with the connection
CancelDropsTxns(s) == Handled(FALSE, [s EXCEPT !.reg = Empty], <<>>, <<>>)

\* return false: nothing received, Quit, or a message that is no request
Cancel(s) == Handled(FALSE, s, <<>>, <<>>)

HandleRequest(msg, o, s) ==
  IF msg.kind = "RecvFail" THEN Cancel(s)
  ELSE IF msg.kind = "cvmfs.MsgHandshake"
  THEN LET r == HandleHandshake(s.nsess)
       IN  Handled(TRUE, [s EXCEPT !.nsess = r.nsess], r.calls, r.replies)
  ELSE IF msg.kind = "cvmfs.MsgQuit" THEN Cancel(s)
  ELSE IF msg.kind = "cvmfs.MsgRefcountReq"
  THEN LET r == HandleRefcount(msg, o) IN Handled(TRUE, s, r.calls, r.replies)
  ELSE IF msg.kind = "cvmfs.MsgObjectInfoReq"
  THEN LET r == HandleObjectInfo(msg, o) IN Handled(TRUE, s, r.calls, r.replies)
  ELSE IF msg.kind = "cvmfs.MsgReadReq"
  THEN LET r == HandleRead(msg, o) IN Handled(TRUE, s, r.calls, r.replies)
  ELSE IF msg.kind = "cvmfs.MsgStoreReq"
  THEN LET r == HandleStore(msg, o, s.reg, s.ntxn)
       IN  Handled(TRUE, [s EXCEPT !.reg = r.reg, !.ntxn = r.ntxn],
                   r.calls, r.replies)
  ELSE IF msg.kind = "cvmfs.MsgStoreAbortReq"
  THEN LET r == HandleStoreAbort(msg, o, s.reg, s.ntxn)
       IN  Handled(TRUE, [s EXCEPT !.reg = r.reg, !.ntxn = r.ntxn],
                   r.calls, r.replies)
  ELSE IF msg.kind = "cvmfs.MsgInfoReq"
  THEN LET r == HandleInfo(msg, o) IN Handled(TRUE, s, r.calls, r.replies)
  ELSE IF msg.kind = "cvmfs.MsgShrinkReq"
  THEN LET r == HandleShrink(msg, o) IN Handled(TRUE, s, r.calls, r.replies)
  ELSE IF msg.kind = "cvmfs.MsgListReq"
  THEN LET r == HandleList(msg, o, s.nlst, s.lst)
       IN  Handled(TRUE, [s EXCEPT !.nlst = r.nlst, !.lst = r.lst],
                   r.calls, r.replies)
  ELSE Cancel(s)

(***************************************************************************)
(* What the backend answers: one record of inputs per request.             *)
(***************************************************************************)
Oracle(start, write, commit, abort, status, nread, begin, fail_at) ==
  [start |-> start, write |-> write, commit |-> commit, abort |-> abort,
   status |-> status, nread |-> nread, begin |-> begin, fail_at |-> fail_at]

NoOracle == Oracle(STATUS_OK, STATUS_OK, STATUS_OK, STATUS_OK, STATUS_OK, 0,
                   STATUS_OK, -1)

Oracles(msg) ==
  IF msg.kind = "cvmfs.MsgStoreReq"
  THEN { Oracle(a, b, c, STATUS_OK, STATUS_OK, 0, STATUS_OK, -1) :
           a \in IF msg.part_nr = 1 THEN BackendStatus ELSE {STATUS_OK},
           b \in IF msg.size > 0 THEN BackendStatus ELSE {STATUS_OK},
           c \in IF msg.last_part THEN BackendStatus ELSE {STATUS_OK} }
  ELSE IF msg.kind = "cvmfs.MsgStoreAbortReq"
  THEN { Oracle(STATUS_OK, STATUS_OK, STATUS_OK, a, STATUS_OK, 0, STATUS_OK, -1) :
           a \in BackendStatus }
  ELSE IF msg.kind = "cvmfs.MsgReadReq"
  THEN { Oracle(STATUS_OK, STATUS_OK, STATUS_OK, STATUS_OK, a, n, STATUS_OK, -1) :
           a \in AnyStatus, n \in 0..msg.size }
  ELSE IF msg.kind = "cvmfs.MsgListReq"
  THEN { Oracle(STATUS_OK, STATUS_OK, STATUS_OK, STATUS_OK, STATUS_IO, 0, b, f) :
           b \in AnyStatus, f \in -1..NumItems }
  ELSE IF msg.kind \in {"cvmfs.MsgRefcountReq", "cvmfs.MsgObjectInfoReq",
                        "cvmfs.MsgInfoReq", "cvmfs.MsgShrinkReq"}
  THEN { Oracle(STATUS_OK, STATUS_OK, STATUS_OK, STATUS_OK, a, 0, STATUS_OK, -1) :
           a \in AnyStatus }
  ELSE {NoOracle}

(***************************************************************************)
(* Observers: the backend's view of the transactions, and the store that   *)
(* proceeds part by part on a key.                                         *)
(***************************************************************************)
RECURSIVE ApplyCalls(_, _, _)
\* the backend's transactions after `calls`, all made for `key`
ApplyCalls(t, calls, key) ==
  IF calls = <<>> THEN t
  ELSE LET c == Head(calls)
           t2 == IF c.op = "StartTxn"
                 THEN Append(t, [key |-> key,
                                 state |-> IF c.status = STATUS_OK THEN "open"
                                           ELSE "refused"])
                 ELSE IF c.op = "CommitTxn" /\ c.txn + 1 \in DOMAIN t
                 THEN [t EXCEPT ![c.txn + 1].state = "committed"]
                 ELSE IF c.op = "AbortTxn" /\ c.txn + 1 \in DOMAIN t
                 THEN [t EXCEPT ![c.txn + 1].state = "aborted"]
                 ELSE t
       IN  ApplyCalls(t2, Tail(calls), key)

NoRun == [parts |-> 0, done |-> FALSE, atts |-> <<>>, calls |-> <<>>,
          replies |-> <<>>]

\* a part as a client that streams an object in order sends it
InOrderPart(msg) ==
  /\ msg.hash_ok
  /\ \/ ~msg.last_part /\ msg.size = MaxObjectSize
     \/ msg.last_part /\ msg.size <= MaxObjectSize

AllOk(calls) == \A k \in DOMAIN calls : calls[k].status = STATUS_OK

Tagged(calls, part) ==
  [k \in DOMAIN calls |->
     [op |-> calls[k].op, txn |-> calls[k].txn, part |-> part]]

\* the run of key after the request msg, handled with result h from registry reg
NextRun(r, msg, h, reg) ==
  LET begins == msg.part_nr = 1 /\ UniqueRequest(msg) \notin DOMAIN reg
      goes_on == r.parts >= 1 /\ ~r.done /\ msg.part_nr = r.parts + 1
      base == IF begins THEN NoRun ELSE r
  IN  IF msg.kind = "cvmfs.MsgStoreReq" /\ InOrderPart(msg) /\ AllOk(h.calls)
         /\ (begins \/ goes_on)
      THEN [parts |-> msg.part_nr, done |-> msg.last_part,
            atts |-> Append(base.atts, msg.size),
            calls |-> base.calls \o Tagged(h.calls, msg.part_nr),
            replies |-> base.replies \o h.replies]
      ELSE NoRun

\* no backend call made for any transaction id
NoAudit == [t \in {} |-> 0]

\* a transaction id for which nothing was called
Unused == [starts |-> 0, ok |-> FALSE, ends |-> 0, late |-> FALSE]

\* one more, as far as it matters
OneMore(n) == IF n < 2 THEN n + 1 ELSE n

\* the summary of an id after the call c for it: how often it was started,
\* whether its StartTxn returned OK, how often it was committed or aborted,
\* and whether a call came before a StartTxn that returned OK or a WriteTxn
\* after a CommitTxn or AbortTxn
Audited(rec, c) ==
  IF c.op = "StartTxn"
  THEN [rec EXCEPT !.starts = OneMore(@), !.ok = (c.status = STATUS_OK),
                   !.late = @ \/ rec.ends > 0]
  ELSE IF c.op = "WriteTxn"
  THEN [rec EXCEPT !.late = @ \/ ~rec.ok \/ rec.ends > 0]
  ELSE [rec EXCEPT !.late = @ \/ ~rec.ok, !.ends = OneMore(@)]

RECURSIVE Audit(_, _)
\* the summaries after the backend calls of a request
Audit(a, calls) ==
  IF calls = <<>> THEN a
  ELSE LET c == Head(calls)
           rec == IF c.txn \in DOMAIN a THEN a[c.txn] ELSE Unused
       IN  IF c.op \in {"StartTxn", "WriteTxn", "CommitTxn", "AbortTxn"}
           THEN Audit([t \in (DOMAIN a) \cup {c.txn} |->
                         IF t = c.txn THEN Audited(rec, c) ELSE a[t]],
                      Tail(calls))
           ELSE Audit(a, Tail(calls))

\* the ids of the backend calls `op` among calls
IdsOf(calls, op) ==
  LET sel == SelectSeq(calls, LAMBDA c : c.op = op)
  IN  [k \in DOMAIN sel |-> sel[k].txn]

NoneAllocated == [session |-> <<>>, txn |-> <<>>, lst |-> <<>>]

\* the ids handed out, after a request handled with result h
NextAllocated(a, h) ==
  LET acks == SelectSeq(h.replies, LAMBDA r : r.type = "cvmfs.MsgHandshakeAck")
  IN  [session |-> a.session \o [k \in DOMAIN acks |-> acks[k].session_id],
       txn |-> a.txn \o IdsOf(h.calls, "StartTxn"),
       lst |-> a.lst \o IdsOf(h.calls, "ListingBegin")]

NoPages == [replies |-> <<>>, calls |-> <<>>, done |-> FALSE, failed |-> FALSE]

\* ListingNext returned something else than OK and OUTOFBOUNDS
ListingFailed(calls) ==
  \E k \in DOMAIN calls :
    /\ calls[k].op = "ListingNext"
    /\ calls[k].status \notin {STATUS_OK, STATUS_OUTOFBOUNDS}

\* what is kept of a reply of a listing
Page(reply) ==
  [status |-> reply.status, is_last_part |-> reply.is_last_part,
   records |-> reply.records]

\* the replies of the listings after the request msg, handled with result h:
\* a listing is followed from the ListReq that begins it to its first reply
\* with is_last_part set; a listing whose ListingNext failed is only marked
NextPages(pg, msg, h) ==
  IF msg.kind # "cvmfs.MsgListReq" THEN pg
  ELSE LET reply == h.replies[1]
           lid == reply.listing_id
           begun == msg.size = 0 /\ h.calls[1].status = STATUS_OK
           goes_on == msg.size # 0 /\ lid \in DOMAIN pg /\ ~pg[lid].done
                        /\ ~pg[lid].failed
           base == IF begun THEN NoPages ELSE pg[lid]
       IN  IF begun \/ goes_on
           THEN [l \in (DOMAIN pg) \cup {lid} |->
                   IF l = lid
                   THEN IF ListingFailed(h.calls)
                        THEN [NoPages EXCEPT !.failed = TRUE]
                        ELSE [replies |-> Append(base.replies, Page(reply)),
                              calls |-> base.calls \o h.calls,
                              done |-> reply.is_last_part,
                              failed |-> FALSE]
                   ELSE pg[l]]
           ELSE pg

IsStoreKind(msg) ==
  msg.kind \in {"cvmfs.MsgStoreReq", "cvmfs.MsgStoreAbortReq"}

\* no request handled in the step that led here
NoRequest ==
  [fd |-> NoFd, msg |-> RecvFail, proceed |-> TRUE, calls |-> <<>>,
   replies |-> <<>>, detached |-> {}, reg |-> Empty, ntxn |-> 0,
   watched |-> {}, conns |-> {}, open |-> {}, signal |-> ""]

(***************************************************************************)
(* PolymorphicConstruction with the plugins of its unit test.  A plugin is *)
(* known by its type_id; a decision value is [type, fail].                 *)
(***************************************************************************)
FirstPolyCtorMock == 0
SecondPolyCtorMock == 1
ThirdPolyCtorMock == 2

PolyCtorMocks == {FirstPolyCtorMock, SecondPolyCtorMock, ThirdPolyCtorMock}

\* DecisionType: the types the tests pass are -1 and rand() % 4
DecisionTypes == [type : -1..3, fail : BOOLEAN]

\* no instance (NULL), or the instance of a plugin class
NoInstance == [null |-> TRUE, of |-> -1]
InstanceOf(plugin) == [null |-> FALSE, of |-> plugin]

\* after SetUp(): UnregisterAllPlugins and ResetAll
NoPlugins ==
  [registered |-> <<>>, register_plugin_calls |-> 0, constructor_calls |-> 0,
   ctor |-> [p \in PolyCtorMocks |-> 0], runs |-> [t \in -1..3 |-> 0],
   called |-> FALSE, param |-> [type |-> -1, fail |-> FALSE],
   result |-> NoInstance,
   op |-> "", before |-> 0, introspect_calls |-> 0, introspection |-> <<>>]

\* (mutation) a plugin that claims every decision value
WillHandleAnything(plugin, param) == TRUE

\* FirstPolyCtorMock::WillHandle and its siblings
WillHandle(plugin, param) == param.type = plugin

\* (mutation) RegisterPlugins that counts its call and registers no plugin
RegisterPluginsNone(pl) ==
  [pl EXCEPT !.register_plugin_calls = @ + 1]

\* AbstractPolyCtorMock::RegisterPlugins
RegisterPlugins(pl) ==
  [pl EXCEPT !.register_plugin_calls = @ + 1,
             !.registered = <<FirstPolyCtorMock, SecondPolyCtorMock,
                              ThirdPolyCtorMock>>]

\* the registry is filled by the first call that needs it
LazilyRegisterPlugins(pl) ==
  IF pl.registered = <<>> THEN RegisterPlugins(pl) ELSE pl

\* the constructor of a plugin class, which runs the one of its base class
Constructor(pl, plugin) ==
  [pl EXCEPT !.constructor_calls = @ + 1, !.ctor[plugin] = @ + 1]

\* PolymorphicConstruction::Construct: the instance of the registered plugin
\* that handles param, or no instance
Construct(pl, param) ==
  LET reg == LazilyRegisterPlugins(pl)
      handlers == SelectSeq(reg.registered, LAMBDA p : WillHandle(p, param))
  IN  IF handlers = <<>>
      THEN [reg EXCEPT !.result = NoInstance]
      ELSE [Constructor(reg, Head(handlers)) EXCEPT
              !.result = InstanceOf(Head(handlers))]

\* FirstPolyCtorMock::message and its siblings
Message(plugin) ==
  CASE plugin = FirstPolyCtorMock -> "Hello from First."
    [] plugin = SecondPolyCtorMock -> "Second calling!"
    [] plugin = ThirdPolyCtorMock -> "Third a l'appareil."

\* FirstPolyCtorMock::GetInfo and its siblings
GetInfo(plugin) == [type |-> plugin, message |-> Message(plugin)]

\* PolymorphicConstruction::Introspect: the GetInfo() of every registered
\* plugin, in the order of registration
Introspect(pl) ==
  LET reg == LazilyRegisterPlugins(pl)
  IN  [reg EXCEPT !.introspection =
         [k \in 1..Len(reg.registered) |-> GetInfo(reg.registered[k])]]

(***************************************************************************)
(* The state after construction, Listen() and ProcessRequests(): the I/O   *)
(* thread has ignored SIGPIPE and watches the control pipe and the socket. *)
(***************************************************************************)
Watch(fd, revents) == [fd |-> fd, revents |-> revents]

\* the channel after construction, whatever its capability mask
Listening ==
  /\ pc = "poll"
  /\ watch_fds = <<Watch(CtrlFd, FALSE), Watch(SocketFd, FALSE)>>
  /\ i = 0
  /\ connections = {}
  /\ open_fds = {}
  /\ pipe_ctrl = <<>>
  /\ asked = 0
  /\ backlog = 0
  /\ pending = {}
  /\ sigpipe = "SIG_IGN"
  /\ txn_ids = Empty
  /\ next_txn_id = 0
  /\ next_session_id = 0
  /\ next_lst_id = 1
  /\ listings = [l \in {} |-> 0]
  /\ txns = <<>>
  /\ run = [k \in UniqueRequests |-> NoRun]
  /\ allocated = NoneAllocated
  /\ audit = NoAudit
  /\ pages = [l \in {} |-> NoPages]
  /\ plugins = NoPlugins
  /\ last = NoRequest

\* (mutation) the listing counter is not advanced past 0 at construction
InitListingIdZero ==
  /\ capabilities = Capabilities
  /\ pc = "poll"
  /\ watch_fds = <<Watch(CtrlFd, FALSE), Watch(SocketFd, FALSE)>>
  /\ i = 0
  /\ connections = {}
  /\ open_fds = {}
  /\ pipe_ctrl = <<>>
  /\ asked = 0
  /\ backlog = 0
  /\ pending = {}
  /\ sigpipe = "SIG_IGN"
  /\ txn_ids = Empty
  /\ next_txn_id = 0
  /\ next_session_id = 0
  /\ next_lst_id = 0
  /\ listings = [l \in {} |-> 0]
  /\ txns = <<>>
  /\ run = [k \in UniqueRequests |-> NoRun]
  /\ allocated = NoneAllocated
  /\ audit = NoAudit
  /\ pages = [l \in {} |-> NoPages]
  /\ plugins = NoPlugins
  /\ last = NoRequest

\* a plugin that advertises every capability
Init ==
  /\ capabilities = Capabilities
  /\ Listening

\* a plugin constructed with any capability mask
InitCapabilities ==
  /\ capabilities \in CapabilityMasks
  /\ Listening

channel == <<txn_ids, next_txn_id, next_session_id, next_lst_id, listings,
             txns, run, allocated, audit, pages>>
supervisor == <<pc, watch_fds, i, connections, open_fds, sigpipe>>

(***************************************************************************)
(* The clients and the owner of the plugin.                                *)
(***************************************************************************)
Terminating == \E k \in DOMAIN pipe_ctrl : pipe_ctrl[k] = kSignalTerminate

\* the I/O thread waits in recv() for a frame of the connection at i
InRecv ==
  /\ pc = "requests"
  /\ i < Len(watch_fds)
  /\ watch_fds[i + 1].revents
  /\ watch_fds[i + 1].fd \notin pending

\* a client connects to the listening socket
ClientConnect(max_conn) ==
  /\ pc = "poll"
  /\ backlog = 0
  /\ Cardinality(open_fds) < max_conn
  /\ backlog' = backlog + 1
  /\ UNCHANGED <<capabilities, asked, plugins, supervisor, channel, pipe_ctrl, pending, last>>

\* a client sends a frame, or hangs up
ClientSend ==
  /\ pc = "poll" \/ InRecv
  /\ \E fd \in open_fds \ pending : pending' = pending \cup {fd}
  /\ UNCHANGED <<capabilities, asked, plugins, supervisor, channel, pipe_ctrl, backlog, last>>

\* CachePlugin::AskToDetach
AskToDetach ==
  /\ pc = "poll"
  /\ ~Terminating
  /\ Len(pipe_ctrl) < MaxPipe
  /\ asked < MaxDetach
  /\ asked' = asked + 1
  /\ pipe_ctrl' = Append(pipe_ctrl, kSignalDetach)
  /\ UNCHANGED <<capabilities, plugins, supervisor, channel, backlog, pending, last>>

\* CachePlugin::~CachePlugin, up to pthread_join: the owner may call it while
\* the I/O thread waits in poll() or in recv()
Destructor ==
  /\ pc = "poll" \/ InRecv
  /\ ~Terminating
  /\ pipe_ctrl' = Append(pipe_ctrl, kSignalTerminate)
  /\ UNCHANGED <<capabilities, asked, plugins, supervisor, channel, backlog, pending, last>>

(***************************************************************************)
(* CachePlugin::MainProcessRequests                                        *)
(***************************************************************************)
\* the descriptors of the accepted connections in the watch list
Watched(w) == { w[k].fd : k \in 3..Len(w) }

\* poll(): revents of every watched descriptor, once one of them is ready
Ready(k) ==
  IF k = 1 THEN pipe_ctrl # <<>>
  ELSE IF k = 2 THEN backlog > 0
  ELSE watch_fds[k].fd \in pending

Poll ==
  /\ pc = "poll"
  /\ \E k \in DOMAIN watch_fds : Ready(k)
  /\ watch_fds' = [k \in DOMAIN watch_fds |-> Watch(watch_fds[k].fd, Ready(k))]
  /\ pc' = "ctrl"
  /\ last' = NoRequest
  /\ UNCHANGED <<capabilities, asked, plugins, i, connections, open_fds, sigpipe, channel, pipe_ctrl,
                 backlog, pending>>

\* CachePlugin::SendDetachRequests: the descriptors a MsgDetach is sent on
SendDetachRequests(conns) == conns

\* the detach signal: broadcast and poll again
Detach ==
  /\ pc = "ctrl"
  /\ watch_fds[1].revents
  /\ Head(pipe_ctrl) = kSignalDetach
  /\ pipe_ctrl' = Tail(pipe_ctrl)
  /\ last' = [NoRequest EXCEPT !.signal = kSignalDetach,
                               !.detached = SendDetachRequests(connections),
                               !.watched = Watched(watch_fds),
                               !.conns = connections, !.open = open_fds]
  /\ pc' = "poll"
  /\ UNCHANGED <<capabilities, asked, plugins, watch_fds, i, connections, open_fds, sigpipe, channel,
                 backlog, pending>>

\* the terminate signal: leave the loop, close the connections watched,
\* clear the registry, restore SIGPIPE
Terminate ==
  /\ pc = "ctrl"
  /\ watch_fds[1].revents
  /\ Head(pipe_ctrl) = kSignalTerminate
  /\ pipe_ctrl' = Tail(pipe_ctrl)
  /\ open_fds' = open_fds \ Watched(watch_fds)
  /\ pending' = pending \ Watched(watch_fds)
  /\ txn_ids' = Empty
  /\ sigpipe' = "SIG_DFL"
  /\ pc' = "done"
  /\ last' = [NoRequest EXCEPT !.signal = kSignalTerminate,
                               !.reg = txn_ids, !.ntxn = next_txn_id,
                               !.watched = Watched(watch_fds),
                               !.conns = connections, !.open = open_fds]
  /\ UNCHANGED <<capabilities, asked, plugins, watch_fds, i, connections, backlog, next_txn_id,
                 next_session_id, next_lst_id, listings, txns, run,
                 allocated, audit, pages>>

\* accept() returns the lowest descriptor that is not open
LowestFree == CHOOSE fd \in FirstConFd..(FirstConFd + Cardinality(open_fds)) :
                /\ fd \notin open_fds
                /\ \A g \in FirstConFd..(fd - 1) : g \in open_fds

\* a new connection; revents of the new element is not initialised and is
\* read by the request loop of the same round
Accept ==
  /\ pc = "ctrl"
  /\ ~watch_fds[1].revents
  /\ watch_fds[2].revents
  /\ backlog' = backlog - 1
  /\ \E revents \in BOOLEAN :
       watch_fds' = Append(watch_fds, Watch(LowestFree, revents))
  /\ connections' = connections \cup {LowestFree}
  /\ open_fds' = open_fds \cup {LowestFree}
  /\ pc' = "requests"
  /\ i' = 2
  /\ UNCHANGED <<capabilities, asked, plugins, sigpipe, channel, pipe_ctrl, pending, last>>

\* accept() fails: poll again
AcceptFails ==
  /\ pc = "ctrl"
  /\ ~watch_fds[1].revents
  /\ watch_fds[2].revents
  /\ backlog' = backlog - 1
  /\ pc' = "poll"
  /\ UNCHANGED <<capabilities, asked, plugins, watch_fds, i, connections, open_fds, sigpipe, channel,
                 pipe_ctrl, pending, last>>

\* neither a signal nor a new connection
NoAccept ==
  /\ pc = "ctrl"
  /\ ~watch_fds[1].revents
  /\ ~watch_fds[2].revents
  /\ pc' = "requests"
  /\ i' = 2
  /\ UNCHANGED <<capabilities, asked, plugins, watch_fds, connections, open_fds, sigpipe, channel,
                 pipe_ctrl, backlog, pending, last>>

\* the request loop passes a connection that has no event
Skip ==
  /\ pc = "requests"
  /\ i < Len(watch_fds)
  /\ ~watch_fds[i + 1].revents
  /\ i' = i + 1
  /\ last' = NoRequest
  /\ UNCHANGED <<capabilities, asked, plugins, pc, watch_fds, connections, open_fds, sigpipe, channel,
                 pipe_ctrl, backlog, pending>>

\* the request loop ends: next round
EndOfRound ==
  /\ pc = "requests"
  /\ i >= Len(watch_fds)
  /\ pc' = "poll"
  /\ last' = NoRequest
  /\ UNCHANGED <<capabilities, asked, plugins, watch_fds, i, connections, open_fds, sigpipe, channel,
                 pipe_ctrl, backlog, pending>>

\* watch_fds.erase(watch_fds.begin() + i)
EraseAt(w, k) == SubSeq(w, 1, k) \o SubSeq(w, k + 2, Len(w))

\* the values watch_fds[i].fd may have after the erase: the element that
\* moved to position i, or, past the end of the vector, what the freed slot
\* holds: the descriptor just closed, or a value that is no connection
FdAfterErase(w, k, closed) ==
  IF k < Len(w) THEN {w[k + 1].fd} ELSE {closed, NoFd}

\* how far the id counters go in a workload
Limits(txn, sess, lst) == [txn |-> txn, sess |-> sess, lst |-> lst]

\* a connection with an event: HandleRequest, and on false close and erase
Request(frames, lim) ==
  /\ pc = "requests"
  /\ i < Len(watch_fds)
  /\ watch_fds[i + 1].revents
  /\ LET fd == watch_fds[i + 1].fd
         s == [reg |-> txn_ids, ntxn |-> next_txn_id, nsess |-> next_session_id,
               nlst |-> next_lst_id, lst |-> listings]
     IN  /\ fd \in pending
         /\ \E msg \in frames : \E o \in Oracles(msg) :
              LET h == HandleRequest(msg, o, s)
                  key == UniqueRequest(msg)
              IN  /\ h.s.ntxn <= lim.txn
                  /\ h.s.nsess <= lim.sess
                  /\ h.s.nlst <= lim.lst + 1
                  /\ txn_ids' = h.s.reg
                  /\ next_txn_id' = h.s.ntxn
                  /\ next_session_id' = h.s.nsess
                  /\ next_lst_id' = h.s.nlst
                  /\ listings' = h.s.lst
                  /\ txns' = ApplyCalls(txns, h.calls, key)
                  /\ run' = IF IsStoreKind(msg)
                            THEN [run EXCEPT ![key] = NextRun(@, msg, h, txn_ids)]
                            ELSE run
                  /\ allocated' = NextAllocated(allocated, h)
                  /\ audit' = Audit(audit, h.calls)
                  /\ pages' = NextPages(pages, msg, h)
                  /\ last' = [fd |-> fd, msg |-> msg, proceed |-> h.proceed,
                              calls |-> h.calls, replies |-> h.replies,
                              detached |-> {}, reg |-> txn_ids,
                              ntxn |-> next_txn_id,
                              watched |-> Watched(watch_fds),
                              conns |-> connections, open |-> open_fds,
                              signal |-> ""]
                  /\ IF h.proceed
                     THEN /\ pending' = pending \ {fd}
                          /\ UNCHANGED <<watch_fds, connections, open_fds>>
                     ELSE /\ pending' = pending \ {fd}
                          /\ open_fds' = open_fds \ {fd}
                          /\ watch_fds' = EraseAt(watch_fds, i)
                          /\ \E gone \in FdAfterErase(watch_fds', i, fd) :
                               connections' = connections \ {gone}
  /\ i' = i + 1
  /\ UNCHANGED <<capabilities, asked, plugins, pc, sigpipe, pipe_ctrl, backlog>>

\* the frames of the clients of a workload
StoreFrames == MsgStoreReqs \cup MsgStoreAbortReqs \cup {MsgQuit}

AllFrames ==
  {RecvFail, MsgQuit, MsgHandshake, MsgUnknown} \cup MsgRefcountReqs
    \cup MsgObjectInfoReqs \cup MsgReadReqs \cup MsgInfoReqs \cup MsgShrinkReqs
    \cup MsgListReqs \cup MsgStoreReqs \cup MsgStoreAbortReqs

ConnectionFrames ==
  {RecvFail, MsgQuit, MsgUnknown, MsgHandshake} \cup MsgInfoReqs

\* the store protocol on one connection at a time, up to termination
NextStore ==
  \/ Poll \/ Terminate \/ Accept \/ NoAccept \/ Skip \/ EndOfRound
  \/ ClientSend \/ Destructor \/ ClientConnect(MaxConnStore)
  \/ Request(StoreFrames, Limits(MaxTxn, MaxHandshake, MaxLst))

SpecStore == Init /\ [][NextStore]_vars

\* the steps of the I/O thread in that workload: the thread takes its next
\* step whenever it has one; a recv() that waits for a frame is not a step
IoThreadStore ==
  \/ Poll \/ Terminate \/ Accept \/ NoAccept \/ Skip \/ EndOfRound
  \/ Request(StoreFrames, Limits(MaxTxn, MaxHandshake, MaxLst))

SpecStoreFair == SpecStore /\ WF_vars(IoThreadStore)

\* the I/O supervisor with several connections
NextSupervisor ==
  \/ Poll \/ Detach \/ Terminate \/ Accept \/ AcceptFails \/ NoAccept
  \/ Skip \/ EndOfRound
  \/ ClientSend \/ AskToDetach \/ Destructor \/ ClientConnect(MaxConn)
  \/ Request(ConnectionFrames, Limits(0, MaxHandshake, MaxLst))

SpecSupervisor == Init /\ [][NextSupervisor]_vars

\* the frames of clients that ask for Info or go away
RoundFrames == {MsgQuit} \cup MsgInfoReqs

\* the rounds of the supervisor with several connections, every accept()
\* succeeding
NextRounds ==
  \/ Poll \/ Detach \/ Terminate \/ Accept \/ NoAccept \/ Skip \/ EndOfRound
  \/ ClientSend \/ AskToDetach \/ Destructor \/ ClientConnect(MaxConn)
  \/ Request(RoundFrames, Limits(0, 0, MaxLst))

\* the steps of the I/O thread in these rounds: the thread takes its next
\* step whenever it has one; a recv() that waits for a frame is not a step
IoThreadRounds ==
  \/ Poll \/ Detach \/ Terminate \/ Accept \/ NoAccept \/ Skip \/ EndOfRound
  \/ Request(RoundFrames, Limits(0, 0, MaxLst))

SpecRounds == Init /\ [][NextRounds]_vars /\ WF_vars(IoThreadRounds)

\* the first part of a store that opens a transaction
FirstParts ==
  { Msg("cvmfs.MsgStoreReq", k[1], k[2], TRUE, MaxObjectSize, 1, FALSE) :
      k \in UniqueRequests }

\* the frames that make the channel hand out an id
IdFrames ==
  {MsgQuit, MsgHandshake} \cup FirstParts
    \cup { Msg("cvmfs.MsgListReq", 0, 1, TRUE, 0, 0, FALSE) }

\* the three counters, on one connection at a time
NextIds ==
  \/ Poll \/ Accept \/ NoAccept \/ Skip \/ EndOfRound
  \/ ClientSend \/ ClientConnect(MaxConnStore)
  \/ Request(IdFrames, Limits(MaxIds, MaxIds, MaxIds))

SpecIds == Init /\ [][NextIds]_vars

\* handshakes and what ends a connection, while transactions are open
SessionFrames ==
  {RecvFail, MsgQuit, MsgHandshake, MsgUnknown} \cup FirstParts

\* several connections that shake hands, open transactions and go away
NextSessions ==
  \/ Poll \/ Accept \/ NoAccept \/ Skip \/ EndOfRound
  \/ ClientSend \/ ClientConnect(MaxConnIds)
  \/ Request(SessionFrames, Limits(MaxIds, MaxIds, MaxLst))

SpecSessions == Init /\ [][NextSessions]_vars

\* the requests for the optional operations
CapabilityFrames ==
  {MsgQuit, MsgHandshake} \cup MsgRefcountReqs \cup MsgObjectInfoReqs
    \cup MsgInfoReqs \cup MsgShrinkReqs \cup MsgListReqs

\* one connection at a time to a plugin with any capability mask
NextCapabilities ==
  \/ Poll \/ Accept \/ NoAccept \/ Skip \/ EndOfRound
  \/ ClientSend \/ ClientConnect(MaxConnStore)
  \/ Request(CapabilityFrames, Limits(0, MaxHandshake, MaxLst))

SpecCapabilities == InitCapabilities /\ [][NextCapabilities]_vars

\* a test calls Construct with a decision value and counts the call
ConstructCall ==
  /\ plugins.runs[-1] + plugins.runs[0] + plugins.runs[1] + plugins.runs[2]
       + plugins.runs[3] < MaxRuns
  /\ \E param \in DecisionTypes :
       plugins' = [Construct(plugins, param) EXCEPT
                     !.runs[param.type] = @ + 1, !.called = TRUE,
                     !.param = param, !.op = "Construct",
                     !.before = plugins.constructor_calls]
  /\ UNCHANGED <<capabilities, asked, supervisor, channel, pipe_ctrl, backlog,
                 pending, last>>

\* a test calls Introspect and keeps the returned list
IntrospectCall ==
  /\ plugins.introspect_calls < MaxIntrospect
  /\ plugins' = [Introspect(plugins) EXCEPT
                   !.introspect_calls = @ + 1, !.op = "Introspect",
                   !.before = plugins.constructor_calls]
  /\ UNCHANGED <<capabilities, asked, supervisor, channel, pipe_ctrl, backlog,
                 pending, last>>

\* any sequence of Construct and Introspect calls, as in CreateMany and
\* Introspect
NextPlugins ==
  \/ ConstructCall
  \/ IntrospectCall

SpecPlugins == Init /\ [][NextPlugins]_vars

\* the dispatcher with every kind of frame, on one connection at a time
Next ==
  \/ Poll \/ Accept \/ NoAccept \/ Skip \/ EndOfRound
  \/ ClientSend \/ ClientConnect(MaxConnStore)
  \/ Request(AllFrames, Limits(MaxTxnAll, MaxHandshake, MaxLst))

Spec == Init /\ [][Next]_vars

(***************************************************************************)
(* Properties.  `last` is the request handled in the step that led to the  *)
(* state: last.reg, last.watched, last.conns and last.open are the         *)
(* registry and the descriptor sets that request started from.             *)
(***************************************************************************)
LastIs(kind) == last.fd # NoFd /\ last.msg.kind = kind
LastKey == UniqueRequest(last.msg)
TxnsOpenFor(key) ==
  { t \in DOMAIN txns : txns[t].key = key /\ txns[t].state = "open" }
TxnsStartedFor(key) == { t \in DOMAIN txns : txns[t].key = key }

\* C1: while the supervisor runs, a key is in the transaction registry if and
\* only if a StartTxn issued for it returned OK and neither CommitTxn nor
\* AbortTxn has been issued since for the transaction id the key maps to.
C1_RegistryIffOpen ==
  pc # "done" =>
    \A key \in UniqueRequests :
      /\ key \in DOMAIN txn_ids =>
           /\ txn_ids[key] + 1 \in DOMAIN txns
           /\ txns[txn_ids[key] + 1] = [key |-> key, state |-> "open"]
      /\ TxnsOpenFor(key) # {} => key \in DOMAIN txn_ids

\* a key registered next to a terminated transaction, after its connection closed
C1_Witness ==
  /\ pc # "done"
  /\ txn_ids # Empty
  /\ \E t \in DOMAIN txns : txns[t].state \in {"committed", "aborted"}
  /\ LastIs("cvmfs.MsgQuit")
  /\ open_fds = {}

\* C2: part 1 on a key that is registered is answered MALFORMED, calls no
\* StartTxn, WriteTxn or CommitTxn, and leaves the registry as it was, the key
\* mapped to its transaction id.
C2_RestartRejected ==
  (LastIs("cvmfs.MsgStoreReq") /\ last.msg.part_nr = 1
     /\ LastKey \in DOMAIN last.reg) =>
    /\ last.replies = <<StoreReply(last.msg.req_id, 1, STATUS_MALFORMED)>>
    /\ last.calls = <<>>
    /\ txn_ids = last.reg
    /\ txn_ids[LastKey] = last.reg[LastKey]
    /\ next_txn_id = last.ntxn

\* a well-formed part 1 arrived for a registered key
C2_Witness ==
  /\ LastIs("cvmfs.MsgStoreReq")
  /\ last.msg.part_nr = 1
  /\ last.msg.hash_ok
  /\ last.msg.size = MaxObjectSize
  /\ LastKey \in DOMAIN last.reg

\* C3, as claimed: over the lifetime of the daemon at most one StartTxn is
\* issued for a key.
C3_OneStartPerKeyEver ==
  \A key \in UniqueRequests : Cardinality(TxnsStartedFor(key)) <= 1

\* C3, amended: StartTxn is issued for a key only while the key is not in the
\* registry, once per request, so that at most one transaction of a key is
\* open at any time.
C3_OneStartWhileRegistered ==
  /\ \A key \in UniqueRequests : Cardinality(TxnsOpenFor(key)) <= 1
  /\ \A k \in DOMAIN last.calls :
       last.calls[k].op = "StartTxn" =>
         /\ k = 1
         /\ LastIs("cvmfs.MsgStoreReq")
         /\ LastKey \notin DOMAIN last.reg

\* a second transaction was started for a key whose first one is terminated
C3_Witness ==
  \E key \in UniqueRequests :
    /\ Cardinality(TxnsStartedFor(key)) = 2
    /\ key \in DOMAIN txn_ids
    /\ LastIs("cvmfs.MsgStoreReq")
    /\ LastKey = key
    /\ last.calls # <<>>
    /\ last.calls[1].op = "StartTxn"

\* C4: a StoreReq with an unparseable hash, an attachment above
\* max_object_size, or an attachment below it on a part that is not the last,
\* is answered MALFORMED without a backend call and with the registry
\* untouched; a part of exactly max_object_size, or a last part of at most
\* max_object_size, passes the gate and reaches the backend unless its key
\* rules it out.
C4_StoreGate ==
  LastIs("cvmfs.MsgStoreReq") =>
    LET m == last.msg
        registered == LastKey \in DOMAIN last.reg
    IN  /\ (~m.hash_ok \/ m.size > MaxObjectSize
              \/ (m.size < MaxObjectSize /\ ~m.last_part)) =>
             /\ last.replies = <<StoreReply(m.req_id, m.part_nr, STATUS_MALFORMED)>>
             /\ last.calls = <<>>
             /\ txn_ids = last.reg
        /\ (m.hash_ok /\ (m.size = MaxObjectSize
                            \/ (m.size <= MaxObjectSize /\ m.last_part))) =>
             /\ (m.part_nr = 1 /\ ~registered) =>
                  (last.calls # <<>> /\ last.calls[1].op = "StartTxn")
             /\ (m.part_nr # 1 /\ registered) =>
                  (last.calls # <<>> /\ last.calls[1].op \in {"WriteTxn", "CommitTxn"})

\* a short part that is not the last arrived for a key with an open transaction
C4_Witness ==
  /\ LastIs("cvmfs.MsgStoreReq")
  /\ last.msg.hash_ok
  /\ last.msg.size < MaxObjectSize
  /\ ~last.msg.last_part
  /\ last.msg.part_nr # 1
  /\ LastKey \in DOMAIN last.reg
  /\ LastKey \in DOMAIN txn_ids

\* the backend calls a store of parts 1..Len(atts) makes when every call
\* returns OK, each with the part it is made for
ExpectedWrites(atts, txn) ==
  LET parts == SelectSeq([p \in 1..Len(atts) |-> p], LAMBDA p : atts[p] > 0)
  IN  [k \in 1..Len(parts) |-> [op |-> "WriteTxn", txn |-> txn, part |-> parts[k]]]

ExpectedCalls(atts, done, txn) ==
  <<[op |-> "StartTxn", txn |-> txn, part |-> 1]>>
    \o ExpectedWrites(atts, txn)
    \o (IF done THEN <<[op |-> "CommitTxn", txn |-> txn, part |-> Len(atts)]>>
        ELSE <<>>)

\* C7: a store on an unregistered key whose parts arrive in order, the parts
\* before the last of exactly max_object_size, the backend returning OK: one
\* StartTxn, first; one WriteTxn per part that has an attachment, in part
\* order, with the transaction id of part 1; one CommitTxn, last, once the
\* last part has arrived; one reply per part with its part_nr; the key out
\* of the registry after the last part and, while the supervisor runs, mapped
\* to the transaction before.
C7_InOrderStore ==
  \A key \in UniqueRequests :
    LET r == run[key] IN
    r.parts >= 1 =>
      LET txn == r.calls[1].txn IN
      /\ Len(r.atts) = r.parts
      /\ r.calls = ExpectedCalls(r.atts, r.done, txn)
      /\ r.replies = [p \in 1..r.parts |-> StoreReply(key[2], p, STATUS_OK)]
      /\ r.done => key \notin DOMAIN txn_ids
      /\ (~r.done /\ pc # "done") =>
           (key \in DOMAIN txn_ids /\ txn_ids[key] = txn)

\* a store of MaxPart parts has gone through, its last part with an attachment
C7_Witness ==
  \E key \in UniqueRequests :
    /\ run[key].parts = MaxPart
    /\ run[key].done
    /\ run[key].atts[MaxPart] > 0
    /\ LastIs("cvmfs.MsgStoreReq")
    /\ LastKey = key

\* C8: StoreAbortReq on a registered key calls AbortTxn once with the
\* registered transaction id, replies its status with part_nr 0 and erases
\* the key whatever the status; on an unregistered key it replies MALFORMED
\* with part_nr 0, calls nothing and leaves the registry as it was.
C8_StoreAbort ==
  LastIs("cvmfs.MsgStoreAbortReq") =>
    IF LastKey \in DOMAIN last.reg
    THEN /\ Len(last.calls) = 1
         /\ last.calls[1].op = "AbortTxn"
         /\ last.calls[1].txn = last.reg[LastKey]
         /\ last.replies =
              <<StoreReply(last.msg.req_id, 0, last.calls[1].status)>>
         /\ txn_ids = Erase(last.reg, LastKey)
    ELSE /\ last.calls = <<>>
         /\ last.replies = <<StoreReply(last.msg.req_id, 0, STATUS_MALFORMED)>>
         /\ txn_ids = last.reg

\* AbortTxn failed for a registered key, next to another registered key
C8_Witness ==
  /\ LastIs("cvmfs.MsgStoreAbortReq")
  /\ LastKey \in DOMAIN last.reg
  /\ last.calls[1].status # STATUS_OK
  /\ txn_ids # Empty

\* C9: when WriteTxn fails for a part, the reply carries its status, neither
\* CommitTxn nor AbortTxn is called, and the key stays mapped to the
\* transaction written to; a later abort or part other than part 1 on a
\* registered key goes to the transaction id the key maps to.
C9_WriteFailureKeepsEntry ==
  /\ LastIs("cvmfs.MsgStoreReq") =>
       \A k \in DOMAIN last.calls :
         (last.calls[k].op = "WriteTxn" /\ last.calls[k].status # STATUS_OK) =>
           /\ last.replies = <<StoreReply(last.msg.req_id, last.msg.part_nr,
                                          last.calls[k].status)>>
           /\ \A j \in DOMAIN last.calls :
                last.calls[j].op \notin {"CommitTxn", "AbortTxn"}
           /\ LastKey \in DOMAIN txn_ids
           /\ txn_ids[LastKey] = last.calls[k].txn
  /\ ((LastIs("cvmfs.MsgStoreReq") /\ last.msg.part_nr # 1)
        \/ LastIs("cvmfs.MsgStoreAbortReq")) =>
       \A k \in DOMAIN last.calls :
         LastKey \in DOMAIN last.reg /\ last.calls[k].txn = last.reg[LastKey]

\* a part other than part 1 goes to the transaction whose write failed before
C9_Witness ==
  /\ LastIs("cvmfs.MsgStoreReq")
  /\ last.msg.part_nr = 2
  /\ ~last.msg.last_part
  /\ last.calls # <<>>
  /\ last.calls[1].op = "WriteTxn"
  /\ last.calls[1].status # STATUS_OK
  /\ run[LastKey].parts = 0

\* C5: a ReadReq with an unparseable hash or a size above max_object_size is
\* answered MALFORMED without an attachment and without Pread; any other
\* ReadReq calls Pread once, and its reply has an attachment exactly when
\* Pread returned OK.
C5_ReadGate ==
  LastIs("cvmfs.MsgReadReq") =>
    /\ Len(last.replies) = 1
    /\ last.replies[1].type = "cvmfs.MsgReadReply"
    /\ IF ~last.msg.hash_ok \/ last.msg.size > MaxObjectSize
       THEN /\ last.calls = <<>>
            /\ last.replies[1].status = STATUS_MALFORMED
            /\ ~last.replies[1].has_att
       ELSE /\ Len(last.calls) = 1
            /\ last.calls[1].op = "Pread"
            /\ last.replies[1].status = last.calls[1].status
            /\ last.replies[1].has_att <=> (last.calls[1].status = STATUS_OK)
            /\ last.replies[1].att <= last.msg.size

\* a read of exactly max_object_size was served in full
C5_Witness ==
  /\ LastIs("cvmfs.MsgReadReq")
  /\ last.msg.hash_ok
  /\ last.msg.size = MaxObjectSize
  /\ last.replies[1].has_att
  /\ last.replies[1].att = MaxObjectSize

ReplyType(kind) ==
  CASE kind = "cvmfs.MsgRefcountReq" -> "cvmfs.MsgRefcountReply"
    [] kind = "cvmfs.MsgObjectInfoReq" -> "cvmfs.MsgObjectInfoReply"
    [] kind = "cvmfs.MsgReadReq" -> "cvmfs.MsgReadReply"
    [] kind = "cvmfs.MsgStoreReq" -> "cvmfs.MsgStoreReply"
    [] kind = "cvmfs.MsgStoreAbortReq" -> "cvmfs.MsgStoreReply"
    [] kind = "cvmfs.MsgInfoReq" -> "cvmfs.MsgInfoReply"
    [] kind = "cvmfs.MsgShrinkReq" -> "cvmfs.MsgShrinkReply"
    [] kind = "cvmfs.MsgListReq" -> "cvmfs.MsgListReply"

Requests ==
  {"cvmfs.MsgRefcountReq", "cvmfs.MsgObjectInfoReq", "cvmfs.MsgReadReq",
   "cvmfs.MsgStoreReq", "cvmfs.MsgStoreAbortReq", "cvmfs.MsgInfoReq",
   "cvmfs.MsgShrinkReq", "cvmfs.MsgListReq"}

\* C6: every decoded request other than Quit and Handshake is answered by
\* exactly one frame, of the reply type of the request and with the req_id of
\* the request, on every path of its handler; the frame goes out through the
\* transport of the connection the request was read from.
C6_OneReplyPerRequest ==
  (last.fd # NoFd /\ last.msg.kind \in Requests) =>
    /\ Len(last.replies) = 1
    /\ last.replies[1].type = ReplyType(last.msg.kind)
    /\ last.replies[1].req_id = last.msg.req_id
    /\ last.proceed

\* an ObjectInfoReq with an unparseable hash was answered
C6_Witness ==
  /\ LastIs("cvmfs.MsgObjectInfoReq")
  /\ ~last.msg.hash_ok
  /\ last.msg.req_id = MaxReqId
  /\ last.replies # <<>>

\* C10: when the dispatcher returns false the supervisor closes that
\* connection and removes its descriptor, and no other, from the watch list
\* and from the connection set.
C10_ClosesExactlyThatConnection ==
  (last.fd # NoFd /\ ~last.proceed) =>
    /\ open_fds = last.open \ {last.fd}
    /\ Watched(watch_fds) = last.watched \ {last.fd}
    /\ connections = last.conns \ {last.fd}

\* the middle one of three connections was closed: its descriptor is still in
\* the connection set, and the descriptor of the connection behind it is not
C10_WrongDescriptorErased ==
  /\ last.fd # NoFd
  /\ ~last.proceed
  /\ Cardinality(last.watched) = 3
  /\ Len(watch_fds) = 4
  /\ watch_fds[3].fd # last.fd
  /\ watch_fds[4].fd # last.fd
  /\ last.fd \in connections
  /\ last.fd \notin open_fds
  /\ watch_fds[4].fd \in open_fds
  /\ watch_fds[4].fd \notin connections

\* C11: when the supervisor handles the detach signal, one MsgDetach goes to
\* every connection that is accepted and not closed, and to no other
\* descriptor; no connection is closed.
C11_DetachReachesOpenConnections ==
  last.signal = kSignalDetach =>
    /\ last.detached = last.open
    /\ open_fds = last.open
    /\ Watched(watch_fds) = last.watched

\* a detach went out while a connection was open that connections_ does not
\* hold: that client got no MsgDetach, and a closed descriptor was written to
C11_OpenConnectionMissed ==
  /\ last.signal = kSignalDetach
  /\ \E fd \in last.open : fd \notin last.detached
  /\ \E fd \in last.detached : fd \notin last.open

\* C12, exit: once the terminate byte is written, the I/O thread leaves its
\* loop.
C12_TerminateExits == Terminating ~> (pc = "done")

\* C12, on exit: the thread has dispatched nothing after reading the byte,
\* every accepted connection is closed, the registry is empty, the
\* transactions that were open have seen neither CommitTxn nor AbortTxn, and
\* SIGPIPE has its previous disposition.
C12_OnExit ==
  pc = "done" =>
    /\ last.signal = kSignalTerminate
    /\ open_fds = {}
    /\ pending = {}
    /\ txn_ids = Empty
    /\ \A key \in DOMAIN last.reg :
         txns[last.reg[key] + 1] = [key |-> key, state |-> "open"]
    /\ sigpipe = "SIG_DFL"

\* the terminate byte is in the pipe while the I/O thread waits in recv() for
\* a frame of a connection that has sent nothing, a transaction being open
C12_BlockedInRecv ==
  /\ Terminating
  /\ InRecv
  /\ txn_ids # Empty

\* the thread has left the loop with a connection and a transaction open
C12_ExitedWithOpenTxn ==
  /\ pc = "done"
  /\ last.open # {}
  /\ last.reg # Empty

RECURSIVE Uninterrupted(_, _, _)
\* what one loop over ListingNext yields for a listing, up to the first
\* status that is not OK
Uninterrupted(listing_id, lst, records) ==
  IF ListingNext(listing_id, lst, NoOracle, 0) # STATUS_OK THEN records
  ELSE LET item == lst[listing_id] + 1
       IN  Uninterrupted(listing_id, [lst EXCEPT ![listing_id] = item],
                         Append(records, item))

RECURSIVE AllRecords(_)
\* the records of successive replies, concatenated
AllRecords(replies) ==
  IF replies = <<>> THEN <<>>
  ELSE Head(replies).records \o AllRecords(Tail(replies))

CountOf(calls, op) == Len(IdsOf(calls, op))

\* C13: for a listing begun with listing_id 0 and continued with the id
\* returned, ListingNext returning only OK and OUTOFBOUNDS, the records of
\* the successive replies, concatenated, are at every moment the beginning
\* of what one uninterrupted loop over ListingNext yields, and all of it
\* once the reply with is_last_part has arrived: nothing lost, nothing twice.
C13_PagesConcatenate ==
  \A l \in DOMAIN pages :
    LET p == pages[l]
        got == AllRecords(p.replies)
        full == Uninterrupted(l, [x \in {l} |-> 0], <<>>)
    IN  ~p.failed =>
          /\ Len(got) <= Len(full)
          /\ got = SubSeq(full, 1, Len(got))
          /\ p.done => got = full

\* a listing came to its end over several replies, the earlier ones cut by
\* the size budget
C13_Witness ==
  \E l \in DOMAIN pages :
    /\ pages[l].done
    /\ Len(pages[l].replies) >= 2
    /\ Len(pages[l].replies[1].records) >= 2
    /\ LastIs("cvmfs.MsgListReq")
    /\ last.msg.size = l

\* C14: a listing paged through to is_last_part sees ListingBegin once, first
\* and with its id, and ListingEnd once, last, in the request whose
\* ListingNext returned OUTOFBOUNDS; that reply has status OK and
\* is_last_part set, every reply before it status OK and is_last_part clear.
C14_BeginOnceEndOnce ==
  /\ \A l \in DOMAIN pages :
       LET p == pages[l] IN
       ~p.failed =>
         /\ CountOf(p.calls, "ListingBegin") = 1
         /\ p.calls[1] = Call("ListingBegin", l, STATUS_OK)
         /\ CountOf(p.calls, "ListingEnd") = (IF p.done THEN 1 ELSE 0)
         /\ \A k \in DOMAIN p.calls : p.calls[k].txn = l
         /\ p.done =>
              /\ p.calls[Len(p.calls)].op = "ListingEnd"
              /\ p.calls[Len(p.calls) - 1] =
                   Call("ListingNext", l, STATUS_OUTOFBOUNDS)
         /\ \A k \in DOMAIN p.replies :
              /\ p.replies[k].status = STATUS_OK
              /\ p.replies[k].is_last_part <=> (p.done /\ k = Len(p.replies))
  /\ LastIs("cvmfs.MsgListReq") =>
       LET nexts == SelectSeq(last.calls, LAMBDA c : c.op = "ListingNext")
           out == nexts # <<>>
                    /\ nexts[Len(nexts)].status = STATUS_OUTOFBOUNDS
           budget == nexts # <<>> /\ nexts[Len(nexts)].status = STATUS_OK
       IN  /\ CountOf(last.calls, "ListingEnd") = (IF out THEN 1 ELSE 0)
           /\ CountOf(last.calls, "ListingBegin") =
                (IF last.msg.size = 0 THEN 1 ELSE 0)
           /\ out => (last.replies[1].status = STATUS_OK
                        /\ last.replies[1].is_last_part)
           /\ budget => (last.replies[1].status = STATUS_OK
                           /\ ~last.replies[1].is_last_part)

\* a listing was ended by a request that continued it: ListingNext has been
\* called once per object and once more
C14_Witness ==
  \E l \in DOMAIN pages :
    /\ pages[l].done
    /\ Len(pages[l].replies) >= 2
    /\ LastIs("cvmfs.MsgListReq")
    /\ last.msg.size = l
    /\ CountOf(last.calls, "ListingEnd") = 1
    /\ CountOf(pages[l].calls, "ListingNext") = NumItems + 1

\* C15: when ListingNext fails during a ListReq, the reply carries the status
\* of the failure and has is_last_part set.
C15_ErrorKeepsLastPart ==
  (LastIs("cvmfs.MsgListReq") /\ ListingFailed(last.calls)) =>
    /\ last.replies[1].status = last.calls[Len(last.calls)].status
    /\ last.replies[1].is_last_part

\* ListingNext failed after it had yielded an object: the reply carries the
\* status of the failure, and is_last_part is clear
C15_ErrorClearsLastPart ==
  /\ LastIs("cvmfs.MsgListReq")
  /\ ListingFailed(last.calls)
  /\ last.replies[1].records # <<>>
  /\ last.replies[1].status = STATUS_IO
  /\ ~last.replies[1].is_last_part

StrictlyIncreasing(seq) ==
  \A a, b \in DOMAIN seq : a < b => seq[a] < seq[b]

\* C16: the session ids of successive handshakes, the transaction ids of
\* successive StartTxn calls and the listing ids of successive ListingBegin
\* calls, failed calls included, are each strictly increasing, and no listing
\* id is 0.
C16_FreshIds ==
  /\ StrictlyIncreasing(allocated.session)
  /\ StrictlyIncreasing(allocated.txn)
  /\ StrictlyIncreasing(allocated.lst)
  /\ \A k \in DOMAIN allocated.lst : allocated.lst[k] # 0

\* every counter has handed out MaxIds ids, the first transaction id and the
\* first listing id to calls that failed
C16_Witness ==
  /\ Len(allocated.session) = MaxIds
  /\ Len(allocated.txn) = MaxIds
  /\ Len(allocated.lst) = MaxIds
  /\ txns[1].state = "refused"
  /\ txns[MaxIds].state = "open"
  /\ allocated.lst[1] \notin DOMAIN pages
  /\ allocated.lst[MaxIds] \in DOMAIN pages

\* C17: a handshake is answered by one HandshakeAck with status OK, the name,
\* the protocol version, max_object_size and the capabilities of the plugin,
\* and a session id no earlier handshake returned; it calls no backend
\* operation, leaves the registry as it was and keeps the connection.
C17_Handshake ==
  LastIs("cvmfs.MsgHandshake") =>
    /\ Len(last.replies) = 1
    /\ LET ack == last.replies[1] IN
       /\ ack = [type |-> "cvmfs.MsgHandshakeAck", status |-> STATUS_OK,
                 name |-> "name_", protocol_version |-> "kPbProtocolVersion",
                 max_object_size |-> MaxObjectSize,
                 session_id |-> ack.session_id,
                 capabilities |-> capabilities]
       /\ allocated.session # <<>>
       /\ ack.session_id = allocated.session[Len(allocated.session)]
       /\ \A k \in 1..(Len(allocated.session) - 1) :
            allocated.session[k] # ack.session_id
    /\ last.calls = <<>>
    /\ txn_ids = last.reg
    /\ next_txn_id = last.ntxn
    /\ last.proceed
    /\ last.fd \in open_fds

\* a second handshake, while a transaction is open and two connections are
C17_Witness ==
  /\ LastIs("cvmfs.MsgHandshake")
  /\ Len(allocated.session) = 2
  /\ txn_ids # Empty
  /\ Cardinality(open_fds) = 2

\* C18: Quit, a frame that cannot be received, and a message that is no
\* request send no frame and call no backend operation; the dispatcher
\* returns false, the supervisor closes that connection and takes it off the
\* watch list, no other, and the registry stays as it was.
C18_Cancel ==
  (last.fd # NoFd
     /\ last.msg.kind \in {"cvmfs.MsgQuit", "RecvFail", "cvmfs.MsgDetach"}) =>
    /\ last.replies = <<>>
    /\ last.calls = <<>>
    /\ ~last.proceed
    /\ open_fds = last.open \ {last.fd}
    /\ Watched(watch_fds) = last.watched \ {last.fd}
    /\ txn_ids = last.reg
    /\ next_txn_id = last.ntxn

\* a frame could not be received on one of two connections while
\* transactions were open
C18_Witness ==
  /\ LastIs("RecvFail")
  /\ Cardinality(last.open) = 2
  /\ Cardinality(open_fds) = 1
  /\ Cardinality(DOMAIN txn_ids) = 2

\* C19: for every request, the status of the reply is the status the last
\* backend call of the handler returned, the handler stopping at the first
\* call that fails; the one status not passed on is OUTOFBOUNDS of
\* ListingNext, after which the listing is ended and the reply says OK.  The
\* dispatcher returns true and the connection stays open and watched.
C19_StatusForwarded ==
  (last.fd # NoFd /\ last.msg.kind \in Requests /\ last.calls # <<>>) =>
    LET n == Len(last.calls)
        c == last.calls[n]
    IN  /\ Len(last.replies) = 1
        /\ IF c.op = "ListingEnd"
           THEN /\ last.calls[n - 1] =
                     Call("ListingNext", c.txn, STATUS_OUTOFBOUNDS)
                /\ last.replies[1].status = STATUS_OK
           ELSE last.replies[1].status = c.status
        /\ \A k \in 1..(n - 1) :
             \/ last.calls[k].status = STATUS_OK
             \/ k = n - 1 /\ c.op = "ListingEnd"
        /\ last.proceed
        /\ last.fd \in open_fds
        /\ last.fd \in Watched(watch_fds)
        /\ open_fds = last.open

\* a backend call other than ListingNext returned OUTOFBOUNDS, and so says
\* the reply
C19_Witness ==
  /\ LastIs("cvmfs.MsgReadReq")
  /\ last.calls # <<>>
  /\ last.calls[1].status = STATUS_OUTOFBOUNDS
  /\ last.replies[1].status = STATUS_OUTOFBOUNDS
  /\ last.fd \in open_fds

C21_LazyOnce ==
  /\ plugins.op = "" =>
        /\ plugins.register_plugin_calls = 0
        /\ plugins.registered = <<>>
  /\ plugins.op # "" => plugins.register_plugin_calls = 1
  /\ plugins.op = "Introspect" =>
        plugins.constructor_calls = plugins.before
  /\ plugins.introspect_calls > 0 =>
        /\ Len(plugins.introspection) = Cardinality(PolyCtorMocks)
        /\ Len(plugins.introspection) = Len(plugins.registered)
        /\ \A p \in PolyCtorMocks :
             Cardinality({k \in DOMAIN plugins.introspection :
                            plugins.introspection[k] = GetInfo(p)}) = 1

\* the first call was a Construct that returned no instance, an instance
\* was built later, and the second Introspect call has just returned
C21_Witness ==
  /\ plugins.op = "Introspect"
  /\ plugins.introspect_calls = 2
  /\ plugins.runs[3] = 1
  /\ plugins.constructor_calls = 1
  /\ plugins.register_plugin_calls = 1
  /\ Len(plugins.introspection) = 3

\* the capability a request needs, and the backend operation it starts with
CapabilityOf(msg) ==
  CASE msg.kind = "cvmfs.MsgRefcountReq" -> "refcount"
    [] msg.kind = "cvmfs.MsgObjectInfoReq" -> "object-info"
    [] msg.kind = "cvmfs.MsgInfoReq" -> "info"
    [] msg.kind = "cvmfs.MsgShrinkReq" -> "shrink"
    [] msg.kind = "cvmfs.MsgListReq" -> "list"
    [] OTHER -> ""

OperationOf(msg) ==
  CASE msg.kind = "cvmfs.MsgRefcountReq" -> "ChangeRefcount"
    [] msg.kind = "cvmfs.MsgObjectInfoReq" -> "GetObjectInfo"
    [] msg.kind = "cvmfs.MsgInfoReq" -> "GetInfo"
    [] msg.kind = "cvmfs.MsgShrinkReq" -> "Shrink"
    [] msg.kind = "cvmfs.MsgListReq" ->
         IF msg.size = 0 THEN "ListingBegin" ELSE "ListingNext"
    [] OTHER -> ""

\* C22: a RefcountReq, ObjectInfoReq, InfoReq, ShrinkReq or ListReq whose
\* capability is not in the mask of the plugin (and whose hash, if it has
\* one, can be parsed) is passed to its backend operation all the same and
\* answered with the status the backend returned (OK once ListingNext ran
\* out of objects), never with MALFORMED made up by the channel.
C22_MaskNotConsulted ==
  (/\ last.fd # NoFd
   /\ CapabilityOf(last.msg) \in Capabilities \ capabilities
   /\ last.msg.hash_ok) =>
    /\ last.calls # <<>>
    /\ last.calls[1].op = OperationOf(last.msg)
    /\ Len(last.replies) = 1
    /\ last.replies[1].status # STATUS_MALFORMED
    /\ LET c == last.calls[Len(last.calls)]
       IN  last.replies[1].status =
             (IF c.op = "ListingEnd" THEN STATUS_OK ELSE c.status)
    /\ last.proceed

\* a plugin advertised no capability in its handshake and is asked for its
\* Info all the same: GetInfo runs and its failure is what the client gets
C22_Witness ==
  /\ capabilities = {}
  /\ allocated.session # <<>>
  /\ LastIs("cvmfs.MsgInfoReq")
  /\ last.calls = <<Call("GetInfo", NoTxn, STATUS_IO)>>
  /\ last.replies[1].status = STATUS_IO

\* C23: a watched connection with an unread request has that request
\* dispatched, unless the thread terminates first (which closes it), whatever
\* else happens in its rounds: connections closed ahead of it, detach signals,
\* new connections.
C23_NoStarvation ==
  \A fd \in FirstConFd..(FirstConFd + MaxConn - 1) :
    (fd \in pending /\ fd \in Watched(watch_fds)) ~> (fd \notin pending)

\* a connection has an unread request while the I/O thread waits in recv()
\* for a frame of a connection accepted in this round, which has sent nothing
C23_WaitsBehindRecv ==
  /\ InRecv
  /\ ~Terminating
  /\ i + 1 = Len(watch_fds)
  /\ \E fd \in Watched(watch_fds) \cap pending : fd # watch_fds[i + 1].fd

\* C24: while the supervisor runs, the connection set holds only descriptors
\* of accepted connections that are open and watched, and the detach
\* broadcast writes to no descriptor that the supervisor has closed.
C24_ConnectionSetOpenAndWatched ==
  /\ pc # "done" =>
        /\ connections \subseteq open_fds
        /\ connections \subseteq Watched(watch_fds)
  /\ last.signal = kSignalDetach => last.detached \subseteq last.open

\* the only connection was closed and its descriptor stayed in the connection
\* set: the detach broadcast wrote to it while no connection was open
C24_DetachOnClosedDescriptor ==
  /\ last.signal = kSignalDetach
  /\ last.open = {}
  /\ last.watched = {}
  /\ last.detached # {}

\* C25: whatever StoreReq and StoreAbortReq frames arrive, for every
\* transaction id StartTxn was called once, every WriteTxn, CommitTxn and
\* AbortTxn for it came after that StartTxn returned OK, at most one
\* CommitTxn or AbortTxn was called for it and no WriteTxn after that one;
\* and no two keys of the registry hold the same transaction id.
C25_TxnLifecycle ==
  /\ \A t \in DOMAIN audit :
       /\ audit[t].starts = 1
       /\ ~audit[t].late
       /\ audit[t].ends <= 1
  /\ \A k1 \in DOMAIN txn_ids : \A k2 \in DOMAIN txn_ids :
       txn_ids[k1] = txn_ids[k2] => k1 = k2

\* after a transaction was committed, a part 3 sent again for its key has
\* been turned down without a backend call, while another key has a
\* transaction open
C25_Witness ==
  /\ LastIs("cvmfs.MsgStoreReq")
  /\ last.msg.part_nr = 3
  /\ ~StoreMalformed(last.msg)
  /\ last.calls = <<>>
  /\ \E t \in DOMAIN audit :
       /\ audit[t].ends = 1
       /\ txns[t + 1] = [key |-> LastKey, state |-> "committed"]
  /\ \E k \in DOMAIN txn_ids :
       k # LastKey /\ audit[txn_ids[k]] = [Unused EXCEPT !.starts = 1, !.ok = TRUE]

====
